---- MODULE Spec2Model ----
(***************************************************************************)
(* A model of foxess-monitor (src/app.py): the operating-mode decision     *)
(* select_work_mode, the startup lookup get_plant_detail, the background   *)
(* loop workmode_algorithm, the request handler index, the price-window    *)
(* selection get_charge_start_hour_from_rce, the energy integration        *)
(* calculate_kwh and the flow reconciliation of generate_sankey_for_date.  *)
(*                                                                         *)
(* Python exceptions are modelled as results: an operator that models a    *)
(* function yields either a value or the name of the exception the         *)
(* function raises.  Prices, times and energies are exact (integers and    *)
(* fractions of integers), not binary floating point.                      *)
(***************************************************************************)
EXTENDS Integers, Sequences, FiniteSets, TLC

VARIABLES
    environ,        \* os.environ: CHARGE_START_HOUR and FORECAST_OFFSET
    shared_state,   \* app.py:20 the shared dictionary
    lock,           \* app.py:25 threading.Lock: "free" or the holder
    inverter,       \* the device behind the cloud API: mode and telemetry
    hour_now,       \* the wall clock's local hour
    main_pc,        \* position of the module-level code (app.py:362-370)
    gpd_attempt,    \* get_plant_detail: the loop variable attempt
    plant_detail,   \* get_plant_detail: what the call gave
    wm_pc,          \* position of the workmode_algorithm thread
    wm_init_soc,    \* workmode_algorithm: the local init_soc
    wm_tick_calls,  \* collaborator API calls made in the current tick
    accesses,       \* every access to shared_state so far, with the lock's state
    io_log,         \* every print, sleep and API call so far, with the lock's state
    req_pc,         \* position of the request handler index()
    req_result,     \* what the request handler renders
    swm_args,       \* the arguments of the last select_work_mode call
    swm_result,     \* its result
    rce_data,       \* the price series the PSE API returned
    tzInfo,         \* app.py:364 the plant's time zone, as its UTC offset in hours
    rce_result,     \* result of get_charge_start_hour_from_rce
    power_data,     \* calculate_kwh: the samples
    shuffled,       \* the same samples in another order
    window,         \* calculate_kwh: start_time_str and end_time_str
    kwh,            \* results of calculate_kwh on power_data and on shuffled
    raw_totals,     \* the seven channels' integrated totals (before rounding)
    flow            \* generate_sankey_for_date: calculated_data

progVars == <<lock, main_pc, gpd_attempt, plant_detail, wm_pc, wm_init_soc,
              wm_tick_calls, accesses, io_log, req_pc, req_result>>
worldVars == <<environ, shared_state, inverter, hour_now>>
modeVars == <<swm_args, swm_result>>
rceVars == <<rce_data, tzInfo, rce_result>>
kwhVars == <<power_data, shuffled, window, kwh>>
flowVars == <<raw_totals, flow>>
vars == <<progVars, worldVars, modeVars, rceVars, kwhVars, flowVars>>

(***************************************************************************)
(* Bounds of the model.                                                    *)
(***************************************************************************)
\* longest text of an environment variable
MaxEnvLen == 2
\* longest sample series handed to calculate_kwh
MaxSamples == 3
\* longest price series
MaxPrices == 3

(***************************************************************************)
(* Program constants.                                                      *)
(***************************************************************************)
MAX_RETRY == 5
volt_threshold == 253
SOC_MIN == 15
INIT_SOC == 20

\* Python's None, and a value that was never assigned.
None == "None"
Unset == "unset"

(***************************************************************************)
(* os.environ.get and int(): the environment holds text or nothing.        *)
(***************************************************************************)
Alphabet == {"-", "0", "8", "x"}
Digits == {"0", "8"}

EnvTexts(n) == UNION {[1..k -> Alphabet] : k \in 0..n}

\* what os.environ.get(name) gives: None for a name that is not set
EnvValues(n) == {[present |-> FALSE, text |-> <<>>]}
                \cup {[present |-> TRUE, text |-> t] : t \in EnvTexts(n)}

Environments(n) == [CHARGE_START_HOUR : EnvValues(n), FORECAST_OFFSET : EnvValues(n)]

DigitValue(c) == IF c = "8" THEN 8 ELSE 0

RECURSIVE DecimalValue(_)
DecimalValue(ds) ==
    IF ds = <<>> THEN 0
    ELSE 10 * DecimalValue(SubSeq(ds, 1, Len(ds) - 1)) + DigitValue(ds[Len(ds)])

\* int(v): TypeError for None, ValueError for text that is no decimal literal
PyInt(v) ==
    IF ~v.present THEN [exc |-> "TypeError", val |-> 0]
    ELSE LET t == v.text
             neg == Len(t) > 0 /\ t[1] = "-"
             ds == IF neg THEN Tail(t) ELSE t
         IN  IF Len(ds) > 0 /\ \A i \in 1..Len(ds) : ds[i] \in Digits
             THEN [exc |-> "", val |-> IF neg THEN 0 - DecimalValue(ds) ELSE DecimalValue(ds)]
             ELSE [exc |-> "ValueError", val |-> 0]

(***************************************************************************)
(* select_work_mode (app.py:286-302).                                      *)
(***************************************************************************)
Modes == {"SelfUse", "Feedin"}
Hours == {0, 6, 9, 23}
Socs == {14, 15, 50}
Volts == {230, 253}

\* app.py:287: both int() calls are evaluated, left to right, before the sum
ChargeStarHour(env) ==
    LET a == PyInt(env.CHARGE_START_HOUR)
        b == PyInt(env.FORECAST_OFFSET)
    IN  IF a.exc # "" THEN [exc |-> a.exc, val |-> 0]
        ELSE IF b.exc # "" THEN [exc |-> b.exc, val |-> 0]
        ELSE [exc |-> "", val |-> a.val + b.val]

\* app.py:292
OutOfRange(soc, rvolt, svolt, tvolt) ==
    soc < SOC_MIN \/ rvolt >= volt_threshold \/ svolt >= volt_threshold
        \/ tvolt >= volt_threshold

\* the function's result: a mode, or the exception line 287 raises
select_work_mode(env, now, init_charge, soc, rvolt, svolt, tvolt) ==
    LET charge_star_hour == ChargeStarHour(env)
    IN  IF charge_star_hour.exc # "" THEN charge_star_hour.exc
        ELSE IF init_charge THEN "SelfUse"
        ELSE IF OutOfRange(soc, rvolt, svolt, tvolt) THEN "SelfUse"
        ELSE IF now < charge_star_hour.val THEN "Feedin"
        ELSE "SelfUse"

NoCall == [init_charge |-> FALSE, soc |-> 0, rvolt |-> 0, svolt |-> 0, tvolt |-> 0,
           hour_now |-> 0, called |-> FALSE]

\* one call of select_work_mode with the clock at hour_now
SelectWorkMode ==
    /\ \E init_charge \in BOOLEAN, soc \in Socs, rvolt \in Volts, svolt \in Volts,
          tvolt \in Volts :
          /\ swm_args' = [init_charge |-> init_charge, soc |-> soc, rvolt |-> rvolt,
                          svolt |-> svolt, tvolt |-> tvolt, hour_now |-> hour_now,
                          called |-> TRUE]
          /\ swm_result' = select_work_mode(environ, hour_now, init_charge, soc,
                                            rvolt, svolt, tvolt)
    /\ UNCHANGED <<progVars, worldVars, rceVars, kwhVars, flowVars>>

(***************************************************************************)
(* The program: module-level startup (app.py:362-370), the background      *)
(* thread workmode_algorithm (app.py:325-336) and the request handler      *)
(* index (app.py:341-360).                                                 *)
(***************************************************************************)
\* app.py:20-24
InitialSharedState ==
    [init_soc |-> INIT_SOC, charge_start_hour |-> None, forecast_offset |-> None]

Inverters == [workmode : Modes, soc : {14, 50}, rvolt : Volts, svolt : {230},
              tvolt : {230}]

\* UTC offsets of the plant's zone (Europe/Warsaw: CET, CEST)
TzOffsets == {1, 2}

\* requests' exception classes (subclasses of RequestException)
RequestExceptions == {"HTTPError", "ConnectionError", "Timeout"}

\* get (app.py:56-74): the response, or None after any failure: both except
\* clauses print and fall off the end of the function
get(net) == IF net = "ok" THEN "Response" ELSE None

\* api_get_plant_detail (app.py:81-88)
api_get_plant_detail(net) == get(net)

\* response.raise_for_status() (app.py:309) on what api_get_plant_detail gave:
\* a response that get returned has passed raise_for_status already, and None
\* has no such attribute
RaiseForStatus(response) == IF response = None THEN "AttributeError" ELSE ""

Log(who, what) == [who |-> who, what |-> what, held |-> lock = who]

\* One pass of the for loop of get_plant_detail (app.py:306-322), the main
\* thread's first statement (app.py:362).
GetPlantDetail ==
    /\ main_pc = "get_plant_detail"
    /\ gpd_attempt < MAX_RETRY
    /\ \E net \in {"ok", "http_error", "connection_error"} :
          LET response == api_get_plant_detail(net)
              exc == RaiseForStatus(response)
          IN  IF exc = ""
              THEN \* break; return response
                   /\ plant_detail' = response
                   /\ main_pc' = "timezone"
                   /\ gpd_attempt' = gpd_attempt
              ELSE IF exc \in RequestExceptions
              THEN IF gpd_attempt = MAX_RETRY - 1
                   THEN \* response = None; break; return response
                        /\ plant_detail' = None
                        /\ main_pc' = "timezone"
                        /\ gpd_attempt' = gpd_attempt
                   ELSE \* time.sleep(wait_time), next attempt
                        /\ plant_detail' = plant_detail
                        /\ main_pc' = main_pc
                        /\ gpd_attempt' = gpd_attempt + 1
              ELSE \* any other exception leaves get_plant_detail
                   /\ plant_detail' = exc
                   /\ main_pc' = "crashed"
                   /\ gpd_attempt' = gpd_attempt
    /\ io_log' = io_log \cup {Log("main", "api_get_plant_detail")}
    /\ UNCHANGED <<lock, wm_pc, wm_init_soc, wm_tick_calls, accesses, req_pc,
                   req_result>>
    /\ UNCHANGED <<worldVars, modeVars, rceVars, kwhVars, flowVars>>

\* app.py:363-365: plant_detail.json()['result']['timezone'], ZoneInfo, print
MainTimezone ==
    /\ main_pc = "timezone"
    /\ IF plant_detail = None
       THEN main_pc' = "crashed" /\ tzInfo' = tzInfo /\ io_log' = io_log
       ELSE /\ main_pc' = "start_thread"
            /\ tzInfo' \in TzOffsets
            /\ io_log' = io_log \cup {Log("main", "print")}
    /\ UNCHANGED <<lock, gpd_attempt, plant_detail, wm_pc, wm_init_soc,
                   wm_tick_calls, accesses, req_pc, req_result>>
    /\ UNCHANGED <<worldVars, modeVars, rce_data, rce_result, kwhVars, flowVars>>

\* app.py:367-370: start the thread, then serve requests
MainStartThread ==
    /\ main_pc = "start_thread"
    /\ main_pc' = "app_run"
    /\ wm_pc' = "started"
    /\ UNCHANGED <<lock, gpd_attempt, plant_detail, wm_init_soc, wm_tick_calls,
                   accesses, io_log, req_pc, req_result>>
    /\ UNCHANGED <<worldVars, modeVars, rceVars, kwhVars, flowVars>>

wmUnchanged == <<main_pc, gpd_attempt, plant_detail, req_pc, req_result>>

\* app.py:327 print("WorkMode thread executed")
WmStart ==
    /\ wm_pc = "started"
    /\ wm_pc' = "lock"
    /\ io_log' = io_log \cup {Log("workmode", "print")}
    /\ UNCHANGED <<lock, wm_init_soc, wm_tick_calls, accesses, wmUnchanged>>
    /\ UNCHANGED <<worldVars, modeVars, rceVars, kwhVars, flowVars>>

\* a mutation of WmLock: the block is entered without taking the lock
WmLock_NoLock ==
    /\ wm_pc = "lock"
    /\ wm_pc' = "read"
    /\ wm_tick_calls' = {}
    /\ UNCHANGED <<lock, wm_init_soc, accesses, io_log, wmUnchanged>>
    /\ UNCHANGED <<worldVars, modeVars, rceVars, kwhVars, flowVars>>

\* app.py:331 with lock: (a tick of the loop begins)
WmLock ==
    /\ wm_pc = "lock"
    /\ lock = "free"
    /\ lock' = "workmode"
    /\ wm_pc' = "read"
    /\ wm_tick_calls' = {}
    /\ UNCHANGED <<wm_init_soc, accesses, io_log, wmUnchanged>>
    /\ UNCHANGED <<worldVars, modeVars, rceVars, kwhVars, flowVars>>

\* app.py:332 init_soc = shared_state['init_soc']
WmRead ==
    /\ wm_pc = "read"
    /\ wm_init_soc' = shared_state.init_soc
    /\ accesses' = accesses \cup {[who |-> "workmode", field |-> "init_soc",
                                   kind |-> "read", held |-> lock = "workmode"]}
    /\ wm_pc' = "unlock"
    /\ UNCHANGED <<lock, wm_tick_calls, io_log, wmUnchanged>>
    /\ UNCHANGED <<worldVars, modeVars, rceVars, kwhVars, flowVars>>

\* the end of the with block
WmUnlock ==
    /\ wm_pc = "unlock"
    /\ lock' = "free"
    /\ wm_pc' = "print"
    /\ UNCHANGED <<wm_init_soc, wm_tick_calls, accesses, io_log, wmUnchanged>>
    /\ UNCHANGED <<worldVars, modeVars, rceVars, kwhVars, flowVars>>

\* app.py:334 print (init_soc)
WmPrint ==
    /\ wm_pc = "print"
    /\ io_log' = io_log \cup {Log("workmode", "print")}
    /\ wm_pc' = "sleep"
    /\ UNCHANGED <<lock, wm_init_soc, wm_tick_calls, accesses, wmUnchanged>>
    /\ UNCHANGED <<worldVars, modeVars, rceVars, kwhVars, flowVars>>

\* app.py:336 time.sleep(5): the tick ends and the next begins
WmSleep ==
    /\ wm_pc = "sleep"
    /\ io_log' = io_log \cup {Log("workmode", "sleep")}
    /\ wm_pc' = "lock"
    /\ UNCHANGED <<lock, wm_init_soc, wm_tick_calls, accesses, wmUnchanged>>
    /\ UNCHANGED <<worldVars, modeVars, rceVars, kwhVars, flowVars>>

reqUnchanged == <<lock, main_pc, gpd_attempt, plant_detail, wm_pc, wm_init_soc,
                  wm_tick_calls, accesses>>

\* index (app.py:342-346): a request arrives while app.run serves
ReqArrive ==
    /\ main_pc = "app_run"
    /\ req_pc = "idle"
    /\ \E method \in {"GET", "POST"} :
          IF method = "POST"
          THEN req_pc' = "generate_sankey" /\ req_result' = req_result
          ELSE req_pc' = "render" /\ req_result' = "form"
    /\ UNCHANGED <<io_log, reqUnchanged>>
    /\ UNCHANGED <<worldVars, modeVars, rceVars, kwhVars, flowVars>>

\* index (app.py:348): generate_sankey_for_date, which calls the history API
\* (app.py:202-203) and returns an error string or the figure and its data
ReqGenerateSankey ==
    /\ req_pc = "generate_sankey"
    /\ \E outcome \in {"ok", "no_response", "exception"} :
          req_result' = CASE outcome = "ok" -> "diagram"
                          [] outcome = "no_response" -> "error: failed to retrieve data"
                          [] OTHER -> "error: an error occurred"
    /\ io_log' = io_log \cup {Log("request", "get_device_history_data")}
    /\ req_pc' = "render"
    /\ UNCHANGED reqUnchanged
    /\ UNCHANGED <<worldVars, modeVars, rceVars, kwhVars, flowVars>>

\* index (app.py:351, 357, 360): render_template
ReqRender ==
    /\ req_pc = "render"
    /\ io_log' = io_log \cup {Log("request", "render_template")}
    /\ req_pc' = "idle"
    /\ UNCHANGED <<req_result, reqUnchanged>>
    /\ UNCHANGED <<worldVars, modeVars, rceVars, kwhVars, flowVars>>

(***************************************************************************)
(* get_charge_start_hour_from_rce (app.py:243-284).                        *)
(***************************************************************************)
\* Exact fractions n/d, for the arithmetic of app.py:260-261.
Frac(n, d) == [n |-> n, d |-> d]
FracDiv(a, b) == Frac(a.n * b.d, a.d * b.n)
FracMul(a, b) == Frac(a.n * b.n, a.d * b.d)
FracAdd(a, b) == Frac(a.n * b.d + b.n * a.d, a.d * b.d)
FracSub(a, b) == Frac(a.n * b.d - b.n * a.d, a.d * b.d)
\* a < b, whatever the signs of the denominators
FracLess(a, b) ==
    IF (a.d > 0) = (b.d > 0) THEN a.n * b.d < b.n * a.d ELSE a.n * b.d > b.n * a.d
FracLessEq(a, b) == ~FracLess(b, a)

\* The periods of a day, by their UTC start, and the prices (PLN/MWh).
PeriodStarts == {[h |-> h, m |-> m] : h \in {5, 6, 7}, m \in {0, 30}}
Prices == {-10, 0, 100, 140, 500}
PriceEntries == [period_utc : PeriodStarts, rce_pln : Prices]

Minutes(p) == 60 * p.h + p.m

\* the API's answer: the entries of the day in chronological order
Chronological(s) ==
    \A i \in 1..Len(s) - 1 : Minutes(s[i].period_utc) < Minutes(s[i + 1].period_utc)

PriceSeries == {s \in UNION {[1..k -> PriceEntries] : k \in 0..MaxPrices} :
                   Chronological(s)}

RceResponses == {[ok |-> FALSE, value |-> <<>>]}
                \cup {[ok |-> TRUE, value |-> s] : s \in PriceSeries}

\* min and max of the prices (app.py:256-259)
LowestRce(s) == CHOOSE p \in {s[i].rce_pln : i \in 1..Len(s)} :
                    \A i \in 1..Len(s) : p <= s[i].rce_pln
HighestRce(s) == CHOOSE p \in {s[i].rce_pln : i \in 1..Len(s)} :
                    \A i \in 1..Len(s) : p >= s[i].rce_pln

\* app.py:260-261, in the order the code evaluates it
ThresholdRce(lowest, highest) ==
    LET l == Frac(lowest, 1)
        h == Frac(highest, 1)
        q == FracDiv(FracSub(l, h), h)
    IN  FracAdd(FracMul(FracMul(q, Frac(9, 10)), h), h)

\* a mutation of BelowThreshold: <= for <
BelowThreshold_OrEqual(price, threshold) == FracLessEq(Frac(price, 1), threshold)

\* app.py:264
BelowThreshold(price, threshold) == FracLess(Frac(price, 1), threshold)

\* app.py:266-275, 284: the period's UTC start on the target date, moved to the
\* plant's zone, and its hour
LocalHour(period_utc, tz) == ((Minutes(period_utc) + 60 * tz) \div 60) % 24

Raised(exc) == [done |-> TRUE, exc |-> exc, hour |-> 0]
Returned(hour) == [done |-> TRUE, exc |-> "", hour |-> hour]
NotRun == [done |-> FALSE, exc |-> "", hour |-> 0]

get_charge_start_hour_from_rce(response, tz) ==
    IF ~response.ok
    THEN \* RequestException: printed; start_datetime_local was never bound
         Raised("UnboundLocalError")
    ELSE LET s == response.value IN
         IF s = <<>> THEN Raised("ValueError")      \* min() of an empty list
         ELSE IF HighestRce(s) = 0 THEN Raised("ZeroDivisionError")
         ELSE LET threshold == ThresholdRce(LowestRce(s), HighestRce(s))
                  hits == {i \in 1..Len(s) : BelowThreshold(s[i].rce_pln, threshold)}
              IN  IF hits = {} THEN Raised("UnboundLocalError")
                  ELSE LET first == CHOOSE i \in hits : \A j \in hits : i <= j
                       IN  Returned(LocalHour(s[first].period_utc, tz))

GetChargeStartHourFromRce ==
    /\ ~rce_result.done
    /\ rce_result' = get_charge_start_hour_from_rce(rce_data, tzInfo)
    /\ UNCHANGED <<rce_data, tzInfo, progVars, worldVars, modeVars, kwhVars, flowVars>>

(***************************************************************************)
(* calculate_kwh (app.py:125-156).  Times are whole hours; a sample's time *)
(* text holds a local clock reading and a UTC offset.                      *)
(***************************************************************************)
UnparsableSample == [dt |-> 1, off |-> 0, ok |-> FALSE, value |-> 1]
Samples == [dt : {1, 2}, off : {0, 1}, ok : {TRUE}, value : {1, 2}]
           \cup {UnparsableSample}
SampleSeries == UNION {[1..k -> Samples] : k \in 0..MaxSamples}
Windows == {[start |-> 0, end |-> 3], [start |-> 1, end |-> 3]}

\* the orders a series can be handed over in
Reorderings(s) == {[i \in 1..Len(s) |-> s[f[i]]] : f \in Permutations(1..Len(s))}

\* app.py:130-134: the aware datetime a sample's text parses to, as an instant
TimeObj(sample) == sample.dt - sample.off

\* app.py:127-137: entries whose time does not parse are skipped
Processed(data) == SelectSeq(data, LAMBDA e : e.ok)

\* one element put into a sorted list behind every element that is not later
InsertByTime(sorted, e) ==
    LET n == Cardinality({i \in 1..Len(sorted) : TimeObj(sorted[i]) <= TimeObj(e)})
    IN  SubSeq(sorted, 1, n) \o <<e>> \o SubSeq(sorted, n + 1, Len(sorted))

RECURSIVE StableSort(_)
StableSort(s) ==
    IF s = <<>> THEN <<>>
    ELSE InsertByTime(StableSort(SubSeq(s, 1, Len(s) - 1)), s[Len(s)])

\* a mutation of SortByTime: the sort is left out
SortByTime_NoSort(processed_data) == processed_data

\* app.py:140 processed_data.sort(key=lambda x: x['time']): a stable sort
SortByTime(processed_data) == StableSort(processed_data)

RECURSIVE SumPairs(_, _, _, _)
\* app.py:146-155: the pairs (i, i+1) from i on
SumPairs(data, i, start_time, end_time) ==
    IF i >= Len(data) THEN 0
    ELSE (IF TimeObj(data[i]) >= start_time /\ TimeObj(data[i + 1]) <= end_time
          THEN data[i + 1].value * (TimeObj(data[i + 1]) - TimeObj(data[i]))
          ELSE 0)
         + SumPairs(data, i + 1, start_time, end_time)

calculate_kwh(data, start_time_str, end_time_str) ==
    LET processed_data == SortByTime(Processed(data))
    IN  IF processed_data = <<>> THEN 0
        ELSE LET first_entry_tz == processed_data[1].off
                 \* app.py:143-144: the naive window in the first entry's zone
                 start_time == start_time_str - first_entry_tz
                 end_time == end_time_str - first_entry_tz
             IN  SumPairs(processed_data, 1, start_time, end_time)

NotIntegrated == [done |-> FALSE, a |-> 0, b |-> 0]

\* calculate_kwh on the series and on its reordering, over the same window
CalculateKwh ==
    /\ ~kwh.done
    /\ kwh' = [done |-> TRUE,
               a |-> calculate_kwh(power_data, window.start, window.end),
               b |-> calculate_kwh(shuffled, window.start, window.end)]
    /\ UNCHANGED <<power_data, shuffled, window, progVars, worldVars, modeVars,
                   rceVars, flowVars>>

(***************************************************************************)
(* The reconciliation of generate_sankey_for_date (app.py:211-235).        *)
(* Energies are in units of 0.0001 kWh.                                    *)
(***************************************************************************)
Channels == {"PVPower", "Discharge Power", "Charge Power", "Output Power",
             "Load Power", "GridConsumption Power", "Feed-in Power"}

\* the totals of the spec's example, in kWh
ExampleKwh == [c \in Channels |->
    CASE c = "PVPower" -> 10
      [] c = "Discharge Power" -> 2
      [] c = "Charge Power" -> 1
      [] c = "Output Power" -> 9
      [] c = "Load Power" -> 8
      [] c = "GridConsumption Power" -> 3
      [] c = "Feed-in Power" -> 1]

Kwh(n) == 10000 * n

\* what calculate_kwh may give for the channels: the example's totals, each
\* off by a few units of 0.0001 kWh
Drifts == {0, 5, 15, -7}
RawTotals == {[c \in Channels |-> Kwh(ExampleKwh[c]) + d[c]] : d \in [Channels -> Drifts]}

\* round(x, 3): to a multiple of 0.001 kWh, a tie to the even one
Round3(x) ==
    LET q == x \div 10
        r == x % 10
    IN  IF r < 5 THEN 10 * q
        ELSE IF r > 5 THEN 10 * (q + 1)
        ELSE IF q % 2 = 0 THEN 10 * q ELSE 10 * (q + 1)

\* app.py:217 calculated_data.update({name: round(total_kwh, 3)})
CalculatedData(totals) == [c \in Channels |-> Round3(totals[c])]

\* a mutation of PvWaste: the charge is added, not subtracted
PvWaste_ChargeAdded(cd) ==
    cd["PVPower"] + cd["Discharge Power"] + cd["Charge Power"] - cd["Output Power"]

\* app.py:220
PvWaste(cd) ==
    cd["PVPower"] + cd["Discharge Power"] - cd["Charge Power"] - cd["Output Power"]

\* a mutation of GridWaste: the feed-in is subtracted, not added
GridWaste_FeedInSubtracted(cd) ==
    cd["Load Power"] - cd["Output Power"] - cd["GridConsumption Power"]
        - cd["Feed-in Power"]

\* app.py:221
GridWaste(cd) ==
    cd["Load Power"] - cd["Output Power"] - cd["GridConsumption Power"]
        + cd["Feed-in Power"]

\* app.py:219-235: calculated_data after the updates
Reconcile(cd) ==
    LET pv_waste == PvWaste(cd)
        grid_waste == GridWaste(cd)
        pv_power == cd["PVPower"] - pv_waste + grid_waste
        cd2 == [cd EXCEPT !["PVPower"] = Round3(pv_power)]
        pv_autoconsume == cd2["PVPower"] - cd2["Charge Power"] - cd2["Feed-in Power"]
        calculated_load == pv_autoconsume + cd2["Discharge Power"]
                               + cd2["GridConsumption Power"]
        delta_load == calculated_load - cd2["Load Power"]
    IN  [done |-> TRUE,
         totals |-> cd,
         data |-> cd2 @@ ("PV Auto Consume Power" :> Round3(pv_autoconsume))
                      @@ ("Calculated Load Power" :> Round3(calculated_load))
                      @@ ("PV Waste Power" :> Round3(pv_waste))
                      @@ ("Grid Waste Power" :> Round3(grid_waste))
                      @@ ("Delta Load Power" :> Round3(delta_load))]

NotReconciled == [done |-> FALSE, totals |-> <<>>, data |-> <<>>]

GenerateSankey ==
    /\ ~flow.done
    /\ flow' = Reconcile(CalculatedData(raw_totals))
    /\ UNCHANGED <<raw_totals, progVars, worldVars, modeVars, rceVars, kwhVars>>

(***************************************************************************)
(* Initial states and specifications.                                      *)
(***************************************************************************)
ProgInit ==
    /\ lock = "free"
    /\ main_pc = "get_plant_detail"
    /\ gpd_attempt = 0
    /\ plant_detail = Unset
    /\ wm_pc = "not_started"
    /\ wm_init_soc = Unset
    /\ wm_tick_calls = {}
    /\ accesses = {}
    /\ io_log = {}
    /\ req_pc = "idle"
    /\ req_result = Unset

ModeIdle == swm_args = NoCall /\ swm_result = Unset
RceIdle == rce_data = [ok |-> TRUE, value |-> <<>>] /\ rce_result = NotRun
KwhIdle ==
    /\ power_data = <<>> /\ shuffled = <<>>
    /\ window = [start |-> 0, end |-> 0] /\ kwh = NotIntegrated
FlowIdle == raw_totals = [c \in Channels |-> 0] /\ flow = NotReconciled

\* The program as it runs: startup, then the thread and the request handler.
Init ==
    /\ ProgInit
    /\ environ \in Environments(1)
    /\ shared_state = InitialSharedState
    /\ inverter \in Inverters
    /\ hour_now \in {6, 9}
    /\ tzInfo = Unset
    /\ ModeIdle /\ RceIdle /\ KwhIdle /\ FlowIdle

Next ==
    \/ GetPlantDetail
    \/ MainTimezone
    \/ MainStartThread
    \/ WmStart
    \/ WmLock
    \/ WmRead
    \/ WmUnlock
    \/ WmPrint
    \/ WmSleep
    \/ ReqArrive
    \/ ReqGenerateSankey
    \/ ReqRender

Spec == Init /\ [][Next]_vars

\* the parts of the world an operation does not read
IdleWorld ==
    /\ environ = [CHARGE_START_HOUR |-> [present |-> FALSE, text |-> <<>>],
                  FORECAST_OFFSET |-> [present |-> FALSE, text |-> <<>>]]
    /\ shared_state = InitialSharedState
    /\ inverter = [workmode |-> "SelfUse", soc |-> 50, rvolt |-> 230,
                   svolt |-> 230, tvolt |-> 230]
    /\ hour_now = 6

\* select_work_mode called in every environment, at every hour.
InitMode ==
    /\ ProgInit
    /\ environ \in Environments(MaxEnvLen)
    /\ shared_state = InitialSharedState
    /\ inverter = [workmode |-> "SelfUse", soc |-> 50, rvolt |-> 230,
                   svolt |-> 230, tvolt |-> 230]
    /\ hour_now \in Hours
    /\ tzInfo = 2
    /\ ModeIdle /\ RceIdle /\ KwhIdle /\ FlowIdle

NextMode == SelectWorkMode

SpecMode == InitMode /\ [][NextMode]_vars

\* get_charge_start_hour_from_rce on every answer of the price API.
InitRce ==
    /\ ProgInit /\ IdleWorld
    /\ tzInfo \in TzOffsets
    /\ rce_data \in RceResponses
    /\ rce_result = NotRun
    /\ ModeIdle /\ KwhIdle /\ FlowIdle

NextRce == GetChargeStartHourFromRce

SpecRce == InitRce /\ [][NextRce]_vars

\* calculate_kwh on every series, in two orders.
InitKwh ==
    /\ ProgInit /\ IdleWorld /\ tzInfo = 2
    /\ power_data \in SampleSeries
    /\ shuffled \in Reorderings(power_data)
    /\ window \in Windows
    /\ kwh = NotIntegrated
    /\ ModeIdle /\ RceIdle /\ FlowIdle

NextKwh == CalculateKwh

SpecKwh == InitKwh /\ [][NextKwh]_vars

\* the reconciliation on every set of channel totals.
InitFlow ==
    /\ ProgInit /\ IdleWorld /\ tzInfo = 2
    /\ raw_totals \in RawTotals
    /\ flow = NotReconciled
    /\ ModeIdle /\ RceIdle /\ KwhIdle

NextFlow == GenerateSankey

SpecFlow == InitFlow /\ [][NextFlow]_vars

(***************************************************************************)
(* C1-C3: the mode decision.                                               *)
(***************************************************************************)
Protective ==
    \/ swm_args.init_charge
    \/ swm_args.soc < 15
    \/ swm_args.rvolt >= 253 \/ swm_args.svolt >= 253 \/ swm_args.tvolt >= 253

\* no charge-start hour can be had from the settings the decision reads
NoValidChargeHour == ChargeStarHour(environ).exc # ""

\* C1: whenever init_charge is true, or soc < 15, or a phase voltage is >= 253,
\* a call of select_work_mode returns SelfUse, whatever the hour and whatever
\* the charge-start hour and forecast offset are.
C1_ProtectiveOverride ==
    (swm_args.called /\ Protective) => swm_result = "SelfUse"

\* the same where both settings are integers: the protective rules then decide
ProtectiveOverrideWithIntegerSettings ==
    (swm_args.called /\ Protective /\ ~NoValidChargeHour) => swm_result = "SelfUse"

\* the time rule on the integers of the environment, which the code compares
TimeRuleFromEnvironment ==
    (swm_args.called /\ ~Protective /\ ~NoValidChargeHour) =>
        swm_result = IF swm_args.hour_now < ChargeStarHour(environ).val
                     THEN "Feedin" ELSE "SelfUse"

\* C2: when no protective rule applies, the call returns Feedin if
\* hour_now < charge_start_hour + forecast_offset and SelfUse otherwise, with
\* charge_start_hour and forecast_offset the values held in shared_state.
C2_TimeRuleFromSharedState ==
    (swm_args.called /\ ~Protective) =>
        /\ shared_state.charge_start_hour # None
        /\ shared_state.forecast_offset # None
        /\ swm_result =
              IF swm_args.hour_now
                    < shared_state.charge_start_hour + shared_state.forecast_offset
              THEN "Feedin" ELSE "SelfUse"

\* C3: when no valid charge-start hour is available, the decision is SelfUse:
\* it neither yields Feedin nor fails.
C3_NoChargeHourGivesSelfUse ==
    (swm_args.called /\ NoValidChargeHour) => swm_result = "SelfUse"

(***************************************************************************)
(* C4: the polling loop.                                                   *)
(***************************************************************************)
\* the mode the decision gives on the inverter's telemetry now
DecidedMode(init_charge) ==
    select_work_mode(environ, hour_now, init_charge, inverter.soc, inverter.rvolt,
                     inverter.svolt, inverter.tvolt)

\* C4: at the end of every tick the loop has fetched telemetry, and has called
\* set_setting exactly if the decided mode differs from the inverter's mode
\* (stated for the ticks on which init_charge does not matter to the decision).
C4_TickAppliesModeChange ==
    wm_pc = "sleep" =>
        /\ "get_device_realtime_data" \in wm_tick_calls
        /\ (\A ic \in BOOLEAN : DecidedMode(ic) \in Modes \ {inverter.workmode})
              => "set_setting" \in wm_tick_calls
        /\ (\A ic \in BOOLEAN : DecidedMode(ic) = inverter.workmode)
              => "set_setting" \notin wm_tick_calls

(***************************************************************************)
(* C5: get_plant_detail.                                                   *)
(***************************************************************************)
\* C5: get_plant_detail ends by returning the response or None, after at most
\* MAX_RETRY attempts: it never ends by raising.
C5_GetPlantDetailReturns ==
    /\ plant_detail \in {Unset, "Response", None}
    /\ gpd_attempt < MAX_RETRY

(***************************************************************************)
(* C10: the lock.                                                          *)
(***************************************************************************)
\* C10: every access to a field of shared_state is made by a thread that holds
\* the lock, and no print, sleep or API call is made by a thread that holds it.
C10_LockDiscipline ==
    /\ \A a \in accesses : a.held
    /\ \A e \in io_log : ~e.held

\* the loop has read init_soc and gone on to print and sleep, and a request
\* has called the history API
C10_Witness ==
    /\ \E a \in accesses : a.who = "workmode" /\ a.field = "init_soc"
    /\ \E e \in io_log : e.who = "workmode" /\ e.what = "sleep"
    /\ \E e \in io_log : e.who = "request" /\ e.what = "get_device_history_data"
    /\ wm_init_soc = INIT_SOC

(***************************************************************************)
(* C6, C7: the charge-start hour.                                          *)
(***************************************************************************)
\* price < highest - 0.9 * (highest - lowest), over the whole series
StrictlyBelow(s, i) ==
    10 * s[i].rce_pln < 10 * HighestRce(s) - 9 * (HighestRce(s) - LowestRce(s))

\* C6: for every non-empty price series, the hour returned is the local hour
\* of the UTC period start of the first entry priced strictly below
\* highest - 0.9 * (highest - lowest).
C6_FirstEntryBelowThreshold ==
    (rce_result.done /\ rce_data.ok /\ rce_data.value # <<>>) =>
        \A i \in 1..Len(rce_data.value) :
            (/\ StrictlyBelow(rce_data.value, i)
             /\ \A j \in 1..(i - 1) : ~StrictlyBelow(rce_data.value, j))
            => rce_result = Returned(LocalHour(rce_data.value[i].period_utc, tzInfo))

\* the same with the series whose highest price is 0 left out
C6_HoldsUnlessHighestIsZero ==
    (rce_result.done /\ rce_data.ok /\ rce_data.value # <<>>
        /\ HighestRce(rce_data.value) # 0) =>
        \A i \in 1..Len(rce_data.value) :
            (/\ StrictlyBelow(rce_data.value, i)
             /\ \A j \in 1..(i - 1) : ~StrictlyBelow(rce_data.value, j))
            => rce_result = Returned(LocalHour(rce_data.value[i].period_utc, tzInfo))

\* C7: if no entry of a non-empty series is strictly below the threshold, the
\* selection ends in a failure and returns no hour.
C7_NoQualifyingPeriodFails ==
    (/\ rce_result.done /\ rce_data.ok /\ rce_data.value # <<>>
     /\ \A i \in 1..Len(rce_data.value) : ~StrictlyBelow(rce_data.value, i))
    => rce_result.exc # ""

\* a flat curve of two entries at a price that is not 0: the scan ends without
\* a hit and the return statement raises
C7_Witness ==
    /\ rce_result.done /\ rce_data.ok /\ Len(rce_data.value) = 2
    /\ rce_data.value[1].rce_pln = 100 /\ rce_data.value[2].rce_pln = 100
    /\ rce_result = Raised("UnboundLocalError")

(***************************************************************************)
(* C8: the order of the samples.                                           *)
(***************************************************************************)
\* a valid series: every time parses, and all carry one UTC offset
ValidSeries ==
    \A i \in 1..Len(power_data) :
        power_data[i].ok /\ power_data[i].off = power_data[1].off

\* C8 as stated: the total is the same for a valid series and for every
\* reordering of it, samples that share a timestamp included.
C8_OrderInvariant == (kwh.done /\ ValidSeries) => kwh.a = kwh.b

\* samples of the series that share a timestamp are the same sample
TiesAreIdentical ==
    \A i, j \in 1..Len(power_data) :
        (power_data[i].ok /\ power_data[j].ok
            /\ TimeObj(power_data[i]) = TimeObj(power_data[j]))
        => power_data[i] = power_data[j]

\* C8 amended: the total is the same for a series and for every reordering of
\* it, provided no two different samples share a timestamp.
C8_OrderInvariantWithoutTies == (kwh.done /\ TiesAreIdentical) => kwh.a = kwh.b

\* three samples at three instants, handed over in two different orders, with
\* energy inside the window
C8_Witness ==
    /\ kwh.done /\ TiesAreIdentical
    /\ Len(power_data) = 3 /\ shuffled # power_data
    /\ \A i \in 1..3 : power_data[i].ok
    /\ Cardinality({TimeObj(power_data[i]) : i \in 1..3}) = 3
    /\ kwh.a > 0 /\ kwh.a = kwh.b

(***************************************************************************)
(* C9: the reconciliation formulas.                                        *)
(***************************************************************************)
ExpectedFlow(PV_raw, Discharge, Charge, Output, Load, GridConsumption, FeedIn) ==
    LET pv_waste == PV_raw + Discharge - Charge - Output
        grid_waste == Load - Output - GridConsumption + FeedIn
        PV_corrected == PV_raw - pv_waste + grid_waste
        pv_autoconsume == PV_corrected - Charge - FeedIn
        calc_load == pv_autoconsume + Discharge + GridConsumption
        delta_load == calc_load - Load
    IN  <<pv_waste, grid_waste, PV_corrected, pv_autoconsume, calc_load, delta_load>>

FlowValues ==
    <<flow.data["PV Waste Power"], flow.data["Grid Waste Power"],
      flow.data["PVPower"], flow.data["PV Auto Consume Power"],
      flow.data["Calculated Load Power"], flow.data["Delta Load Power"]>>

\* C9: the six derived values are the claim's formulas of the seven channel
\* totals, and the totals 10, 2, 1, 9, 8, 3, 1 give 2, -3, 5, 3, 8, 0.
C9_ReconciliationFormulas ==
    flow.done =>
        /\ FlowValues = ExpectedFlow(flow.totals["PVPower"],
                                     flow.totals["Discharge Power"],
                                     flow.totals["Charge Power"],
                                     flow.totals["Output Power"],
                                     flow.totals["Load Power"],
                                     flow.totals["GridConsumption Power"],
                                     flow.totals["Feed-in Power"])
        /\ flow.totals = CalculatedData(raw_totals)
        /\ (raw_totals = [c \in Channels |-> Kwh(ExampleKwh[c])]
              => FlowValues = <<Kwh(2), Kwh(-3), Kwh(5), Kwh(3), Kwh(8), Kwh(0)>>)

\* the spec's example has been reconciled
C9_Witness ==
    /\ flow.done
    /\ raw_totals = [c \in Channels |-> Kwh(ExampleKwh[c])]
    /\ flow.data["PV Waste Power"] = Kwh(2)
    /\ flow.data["Grid Waste Power"] = Kwh(-3)

(***************************************************************************)
(* C11: what the reconciliation formulas come to.                          *)
(***************************************************************************)
\* C11: for every set of the seven channel totals the calculated load equals
\* the load total and delta_load is 0, and the corrected PV total is
\* Charge - Discharge + Load - GridConsumption + FeedIn, whatever the raw PV
\* and output totals are.
C11_DeltaLoadIsZero ==
    flow.done =>
        /\ flow.data["Calculated Load Power"] = flow.totals["Load Power"]
        /\ flow.data["Delta Load Power"] = 0
        /\ flow.data["PVPower"] =
              flow.totals["Charge Power"] - flow.totals["Discharge Power"]
                  + flow.totals["Load Power"] - flow.totals["GridConsumption Power"]
                  + flow.totals["Feed-in Power"]

\* totals that do not balance (both waste terms are non-zero, and the raw PV
\* total is not the corrected one) have been reconciled
C11_Witness ==
    /\ flow.done
    /\ flow.data["PV Waste Power"] # 0
    /\ flow.data["Grid Waste Power"] # 0
    /\ flow.totals["PVPower"] # flow.data["PVPower"]
    /\ flow.totals # [c \in Channels |-> Kwh(ExampleKwh[c])]
    /\ flow.data["Delta Load Power"] = 0

====
